---- MODULE Spec2Model ----
(***************************************************************************)
(* Governance Service (src/src/governance-service/index.js): proposals     *)
(* kept in a shared Redis store, vote handlers that read a proposal,       *)
(* verify an Ed25519 signature, call the issuer's revoke endpoint when the *)
(* threshold is reached and write the proposal back.                       *)
(*                                                                         *)
(* Every `await` of a handler is a point where other handlers (of this or  *)
(* of another replica) may run, so a vote is three steps: the store read   *)
(* with the synchronous checks that follow it, the executor call, and the  *)
(* store write with the response.                                          *)
(*                                                                         *)
(* Verification Gateway and Transparency Log                               *)
(* (src/src/verification-gateway/index.js): POST /verify opens a session   *)
(* for the exchange the agent created, the present_proof webhook marks it  *)
(* VERIFIED_AND_LOGGED and posts an audit entry to the log service, which  *)
(* appends it to a Redis list with RPUSH. The two services share no key,   *)
(* so each is checked under its own specification: Spec and GatewaySpec.   *)
(***************************************************************************)
EXTENDS Integers, Sequences, FiniteSets, TLC

\* ------------------------------------------------------------------ bounds
\* vote requests with a verified signature in one behaviour (a rejected
\* request changes nothing, so any number of them may come)
MaxVotes == 4
\* vote requests, and webhook requests, being handled at the same time
MaxInFlight == 2
\* webhook events handled as a successful verification in one behaviour (a
\* dropped event changes nothing, so any number of them may come)
MaxDeliveries == 3

\* --------------------------------------------------------------- constants
THRESHOLD == 3

\* keys of VALIDATORS: one per <name>.pub file of VALIDATOR_KEYS_PATH
VALIDATORS == {"validator_1", "validator_2", "validator_3", "validator_4"}

\* values of req.body.action: only REVOKE_CREDENTIAL has an executor
Actions == {"REVOKE_CREDENTIAL", "ROTATE_KEY"}
\* values of req.body.payload (opaque)
Payloads == {"cred_A", "cred_B"}
\* the bodies POST /proposals is given
CreateBodies == {[action |-> "REVOKE_CREDENTIAL", payload |-> "cred_A"],
                 [action |-> "ROTATE_KEY", payload |-> "cred_B"]}
\* the role claim of the bearer token of POST /proposals
Roles == {"admin", "user"}

\* the ids crypto.randomUUID gives and the ids of the vote URLs. A handler
\* reads and writes the key of its own id alone, so one proposal is modelled.
ProposalIds == {"proposal_1"}
Handlers == 1..MaxInFlight

\* express.json() gives req.body.validatorId as any JSON value: a string, or
\* an array holding one string ("wrapped").
Str(v) == [name |-> v, wrapped |-> FALSE]
Arr(v) == [name |-> v, wrapped |-> TRUE]
ValidatorIdInputs ==
    {Str(v) : v \in VALIDATORS \cup {"validator_9"}} \cup {Arr("validator_1")}

\* the ids validators have signed messages for: those of this store and the
\* id of another proposal
SignedIds == ProposalIds \cup {"proposal_2"}

\* presentation_exchange_id: the ids the agent gives its proof requests, in
\* the order it gives them
ExchangeSeq == <<"exchange_1", "exchange_2">>
ExchangeIds == {ExchangeSeq[i] : i \in 1..Len(ExchangeSeq)}
\* req.user.role of POST /verify
VerifyRoles == {"verifier", "verifier_system", "holder"}
\* req.body of the webhook: state, and verified as the string or the boolean
WebhookStates == {"verified", "presentation_received"}
VerifiedInputs == {"string:true", "boolean:true", "string:false"}
Events == [state : WebhookStates, presentation_exchange_id : ExchangeIds,
           verified : VerifiedInputs]
NoSession == [status |-> "NONE"]

NoProposal == [action |-> "", payload |-> "", approvals |-> <<>>, status |-> "NONE"]
NoValidator == Str("")

VARIABLES
    store,          \* Redis: key proposal:<id> -> the JSON record
    expiring,       \* the keys of store that carry a TTL (EX)
    req,            \* per handler: where the vote request is, and its locals
    executorCalls,  \* per proposal id: the POSTs to /revocation/revoke, each
                    \* with its body and whether the issuer answered it
    created,        \* history: id -> the body POST /proposals was given
    accepted,       \* history: id -> validators whose signature was verified
    succeeded,      \* history: id -> validatorIds answered {status: ...}
    finalized,      \* history: ids whose EXECUTED record has been written
    overlapped,     \* history: ids that had two votes handled at once
    votes           \* vote requests accepted so far

governance == <<store, expiring, req, executorCalls, created, accepted,
                succeeded, finalized, overlapped, votes>>

VARIABLES
    sessions,       \* Redis: key session:<exchangeId> -> the JSON record
    agent,          \* the exchanges the agent has created a proof request for
    creating,       \* POST /verify between the agent's answer and the SET
    hook,           \* per handler: where the webhook request is, and its locals
    appends,        \* exchangeId -> POSTs to /api/v1/log/entries not yet received
    logReq,         \* log service: entries built, RPUSH not yet done
    log,            \* Redis: the list audit:transparency_log
    receipts,       \* history: the {uuid, logIndex} answers of the log service
    issued,         \* history: exchangeId -> audit appends triggered so far
    delivered,      \* webhook events handled as a success so far
    renewed,        \* the keys of sessions whose TTL was started anew by a
                    \* write later than the one that created the session
    server          \* the gateway process: listening, closing or exited

gateway == <<sessions, agent, creating, hook, appends, logReq, log, receipts,
             issued, delivered, renewed, server>>

vars == <<governance, gateway>>

\* ----------------------------------------------------------------- helpers
\* VALIDATORS[validatorId]: a property key is the value's string form, and
\* the string form of an array holding one string is that string.
PropertyKey(validatorId) == validatorId.name

\* proposal.approvals.includes(validatorId): SameValueZero, so a string is
\* found by value and an array (an object of this request) never is.
Includes(approvals, validatorId) ==
    /\ ~validatorId.wrapped
    /\ \E i \in 1..Len(approvals) : approvals[i] = validatorId

\* JSON.stringify of a payload that is a string without quotes or backslashes
Stringify(payload) == "\"" \o payload \o "\""

\* the message built from the proposal's id alone left out
MessageWithoutId(id, proposal) ==
    proposal.action \o ":" \o Stringify(proposal.payload)

\* `${id}:${proposal.action}:${JSON.stringify(proposal.payload)}`
Message(id, proposal) ==
    id \o ":" \o proposal.action \o ":" \o Stringify(proposal.payload)

\* An Ed25519 signature is fixed by the key and the bytes signed: what the
\* validator `signer` gets by signing the message of (id, action, payload).
Sign(signer, id, action, payload) ==
    [signer |-> signer,
     message |-> Message(id, [action |-> action, payload |-> payload])]

\* What validators have signed: for the proposals of this store every
\* action and payload, for the other proposal the bodies proposals are
\* created with.
SignedMessages ==
    {[id |-> i, action |-> a, payload |-> p] :
        i \in ProposalIds, a \in Actions, p \in Payloads}
    \cup {[id |-> i, action |-> b.action, payload |-> b.payload] :
        i \in SignedIds \ ProposalIds, b \in CreateBodies}

\* the signatures there are, each with the validator and the message it was
\* made by and for
Signed ==
    {[by |-> v, for |-> m, signature |-> Sign(v, m.id, m.action, m.payload)] :
        v \in VALIDATORS, m \in SignedMessages}

\* req.body.signature: a signature some validator made for some proposal
Signatures == {s.signature : s \in Signed}

\* crypto.verify(null, message, publicKey of `owner`, signature)
Verify(message, owner, signature) ==
    /\ signature.signer = owner
    /\ signature.message = message

\* the threshold test with > for >=
ReachedThresholdStrict(approvals) == Len(approvals) > THRESHOLD

\* proposal.approvals.length >= THRESHOLD
ReachedThreshold(approvals) == Len(approvals) >= THRESHOLD

\* { ...proposal.payload, publish: true }
RevokeBody(proposal) == [payload |-> proposal.payload, publish |-> TRUE]

\* redisClient.set(key, value)
Put(s, id, value) == [q \in DOMAIN s \cup {id} |-> IF q = id THEN value ELSE s[q]]
\* key expiry
Drop(s, id) == [q \in DOMAIN s \ {id} |-> s[q]]

\* The checks of a vote between the store read and the push, in the code's
\* order: what the request is answered, or "Accepted" when the vote goes on.
\* VALIDATORS[validatorId] of an unknown validator is undefined, reading its
\* publicKey throws, and the catch answers 500.
VoteOutcome(s, id, validatorId, signature) ==
    IF id \notin DOMAIN s THEN "NotFound"
    ELSE IF s[id].status # "PENDING" THEN "Finalized"
    ELSE IF Includes(s[id].approvals, validatorId) THEN "Voted"
    ELSE IF PropertyKey(validatorId) \notin VALIDATORS THEN "InternalError"
    ELSE IF ~Verify(Message(id, s[id]), PropertyKey(validatorId), signature)
         THEN "BadSig"
    ELSE "Accepted"

NoSignature == [signer |-> "", message |-> ""]
Idle == [pc |-> "idle", id |-> "", validatorId |-> NoValidator,
         signature |-> NoSignature, proposal |-> NoProposal]

HookIdle == [pc |-> "idle", id |-> "", session |-> NoSession]
HookInFlight(h) == hook[h].pc = "set"

InFlight(h) == req[h].pc \in {"exec", "set"}
Free(h) == ~InFlight(h)

\* -------------------------------------------------------------------- Init
Init ==
    /\ store = <<>>
    /\ expiring = {}
    /\ req = [h \in Handlers |-> Idle]
    /\ executorCalls = [p \in ProposalIds |-> <<>>]
    /\ created = <<>>
    /\ accepted = [p \in ProposalIds |-> {}]
    /\ succeeded = [p \in ProposalIds |-> {}]
    /\ finalized = {}
    /\ overlapped = {}
    /\ votes = 0
    /\ sessions = <<>>
    /\ agent = {}
    /\ creating = {}
    /\ hook = [h \in Handlers |-> HookIdle]
    /\ appends = [x \in ExchangeIds |-> 0]
    /\ logReq = {}
    /\ log = <<>>
    /\ receipts = {}
    /\ issued = [x \in ExchangeIds |-> 0]
    /\ delivered = 0
    /\ renewed = {}
    /\ server = "listening"

\* ----------------------------------------------------------------- actions
\* POST /proposals (requireAdmin, then the handler)
CreateProposal(role, body, proposalId) ==
    IF role # "admin"
    THEN UNCHANGED vars                                   \* 403 Forbidden
    ELSE /\ proposalId \notin DOMAIN created              \* a fresh UUID
         /\ store' = Put(store, proposalId,
                [action |-> body.action, payload |-> body.payload,
                 approvals |-> <<>>, status |-> "PENDING"])
         /\ expiring' = expiring \cup {proposalId}
         /\ created' = Put(created, proposalId, body)
         /\ UNCHANGED <<req, executorCalls, accepted, succeeded, finalized,
                        overlapped, votes, gateway>>

\* a vote handler that pushes the validatorId and saves the proposal before
\* any of the checks that follow the store read
VoteGetPushFirst(h, id, validatorId) ==
    /\ Free(h)
    /\ id \in DOMAIN store
    /\ Len(store[id].approvals) < THRESHOLD
    /\ store' = Put(store, id,
                    [store[id] EXCEPT !.approvals = Append(@, validatorId)])
    /\ UNCHANGED <<expiring, req, executorCalls, created, accepted, succeeded,
                   finalized, overlapped, votes, gateway>>

\* POST /proposals/:id/approve, from the request to the first await after the
\* store read: redisClient.get, the checks, the push. A rejected request is
\* answered at once and leaves everything as it was. req.body.signature is
\* any of Signatures; the handler reads it in the checks alone, so the step is
\* taken once per answer the signatures can get.
VoteGet(h, id, validatorId) ==
    /\ Free(h)
    /\ \A g \in Handlers : g < h => InFlight(g)
    /\ \E outcome \in {VoteOutcome(store, id, validatorId, signature) :
                            signature \in Signatures} :
       IF outcome # "Accepted"
       THEN UNCHANGED vars
       ELSE LET pushed == [store[id] EXCEPT !.approvals = Append(@, validatorId)]
                executor == pushed.action = "REVOKE_CREDENTIAL"
            IN
            /\ votes < MaxVotes
            /\ votes' = votes + 1
            /\ accepted' = [accepted EXCEPT ![id] = @ \cup {PropertyKey(validatorId)}]
            /\ overlapped' = IF \E g \in Handlers : InFlight(g) /\ req[g].id = id
                             THEN overlapped \cup {id} ELSE overlapped
            /\ \E signature \in Signatures :
                  /\ VoteOutcome(store, id, validatorId, signature) = "Accepted"
                  /\ req' = [req EXCEPT ![h] =
                       [pc |-> IF ReachedThreshold(pushed.approvals) /\ executor
                               THEN "exec" ELSE "set",
                        id |-> id, validatorId |-> validatorId,
                        signature |-> signature,
                        proposal |-> IF ReachedThreshold(pushed.approvals) /\ ~executor
                                     THEN [pushed EXCEPT !.status = "EXECUTED"]
                                     ELSE pushed]]
            /\ UNCHANGED <<store, expiring, executorCalls, created, succeeded,
                           finalized, gateway>>

\* await axios.post(ISSUER_ADMIN_URL/revocation/revoke): the call is made; it
\* returns (ok) or throws (the catch answers 500 and nothing is written).
ExecutorCall(h, ok) ==
    /\ req[h].pc = "exec"
    /\ executorCalls' = [executorCalls EXCEPT ![req[h].id] =
                            Append(@, [body |-> RevokeBody(req[h].proposal),
                                       ok |-> ok])]
    /\ req' = [req EXCEPT ![h] =
            IF ok THEN [@ EXCEPT !.pc = "set", !.proposal.status = "EXECUTED"]
            ELSE Idle]
    /\ UNCHANGED <<store, expiring, created, accepted, succeeded, finalized,
                   overlapped, votes, gateway>>

\* await redisClient.set(key, JSON.stringify(proposal)); res.json(status)
VoteSet(h) ==
    /\ req[h].pc = "set"
    /\ store' = Put(store, req[h].id, req[h].proposal)
    /\ expiring' = expiring \ {req[h].id}       \* SET without EX drops the TTL
    /\ req' = [req EXCEPT ![h] = Idle]
    /\ succeeded' = [succeeded EXCEPT ![req[h].id] = @ \cup {req[h].validatorId}]
    /\ finalized' = IF req[h].proposal.status = "EXECUTED"
                    THEN finalized \cup {req[h].id} ELSE finalized
    /\ UNCHANGED <<executorCalls, created, accepted, overlapped, votes,
                   gateway>>

\* Redis drops a key whose TTL (EX 86400) has run out
Expire(id) ==
    /\ id \in DOMAIN store
    /\ id \in expiring
    /\ store' = Drop(store, id)
    /\ expiring' = expiring \ {id}
    /\ UNCHANGED <<req, executorCalls, created, accepted, succeeded, finalized,
                   overlapped, votes, gateway>>

Next ==
    \/ \E role \in Roles, body \in CreateBodies, proposalId \in ProposalIds :
          CreateProposal(role, body, proposalId)
    \/ \E h \in Handlers, id \in ProposalIds, validatorId \in ValidatorIdInputs :
          VoteGet(h, id, validatorId)
    \/ \E h \in Handlers, ok \in BOOLEAN : ExecutorCall(h, ok)
    \/ \E h \in Handlers : VoteSet(h)
    \/ \E id \in ProposalIds : Expire(id)

Spec == Init /\ [][Next]_vars

\* ------------------------------------------- verification gateway and log
\* verified === "true" || verified === true
Verified(verified) == verified \in {"string:true", "boolean:true"}

\* the webhook's checks with the test of `verified` left out
WebhookOutcomeAnyResult(s, authorized, event) ==
    IF ~authorized THEN "Unauthorized"
    ELSE IF event.state # "verified" THEN "OtherState"
    ELSE IF event.presentation_exchange_id \notin DOMAIN s THEN "NoSession"
    ELSE "Handled"

\* The webhook's checks, in the code's order: why the event is dropped, or
\* "Handled" when it is taken as a successful verification.
WebhookOutcome(s, authorized, event) ==
    IF ~authorized THEN "Unauthorized"
    ELSE IF event.state # "verified" THEN "OtherState"
    ELSE IF event.presentation_exchange_id \notin DOMAIN s THEN "NoSession"
    ELSE IF ~Verified(event.verified) THEN "NotVerified"
    ELSE "Handled"

\* the leaf handleSuccessfulVerification posts, wrapped as a hashedrekord
AuditBody(exchangeId) == [exchangeId |-> exchangeId, result |-> "VALID"]

\* a write that replaces the last element of the list
SetLast(list, value) ==
    IF list = <<>> THEN <<value>> ELSE [list EXCEPT ![Len(list)] = value]
\* a push at the head of the list
LPush(list, value) == <<value>> \o list

\* redisClient.rPush(key, value): the list after it
RPush(list, value) == Append(list, value)
\* RPUSH's reply: the length of the list after the push
ListLength(list) == Len(list)

\* POST /verify: the role check, then the agent's create-request. The agent
\* answers (ok) with the id of a new exchange, or the call throws (500).
VerifyCreate(role, ok) ==
    /\ server = "listening"
    /\ IF role \notin {"verifier", "verifier_system"} \/ ~ok
       THEN UNCHANGED vars
       ELSE \E x \in ExchangeIds \ agent :
            /\ x = ExchangeSeq[Cardinality(agent) + 1]      \* a fresh id
            /\ agent' = agent \cup {x}
            /\ creating' = creating \cup {x}
            /\ UNCHANGED <<governance, sessions, hook, appends, logReq, log,
                           receipts, issued, delivered, renewed, server>>

\* POST /verify: redisClient.set(session:<id>, REQUEST_SENT, EX 3600), res.json
VerifySet(x) ==
    /\ x \in creating
    /\ sessions' = Put(sessions, x, [status |-> "REQUEST_SENT"])
    /\ creating' = creating \ {x}
    /\ renewed' = renewed \ {x}
    /\ UNCHANGED <<governance, agent, hook, appends, logReq, log, receipts,
                   issued, delivered, server>>

\* Redis drops a session key whose TTL (EX 3600) has run out
SessionExpire(x) ==
    /\ x \in DOMAIN sessions
    /\ sessions' = Drop(sessions, x)
    /\ renewed' = renewed \ {x}
    /\ UNCHANGED <<governance, agent, creating, hook, appends, logReq, log,
                   receipts, issued, delivered, server>>

\* The webhook, from the request to the await of the session write: the
\* key check, redisClient.get, and for a success the call of
\* handleSuccessfulVerification, which runs to its axios.post (the append is
\* then on its way), and the new status in the copy that was read. A dropped
\* event is answered at once and leaves everything as it was.
WebhookGet(h, authorized, event) ==
    /\ server = "listening"
    /\ ~HookInFlight(h)
    /\ \A g \in Handlers : g < h => HookInFlight(g)
    /\ IF WebhookOutcome(sessions, authorized, event) # "Handled"
       THEN UNCHANGED vars
       ELSE LET x == event.presentation_exchange_id IN
            /\ delivered < MaxDeliveries
            /\ delivered' = delivered + 1
            /\ appends' = [appends EXCEPT ![x] = @ + 1]
            /\ issued' = [issued EXCEPT ![x] = @ + 1]
            /\ hook' = [hook EXCEPT ![h] =
                   [pc |-> "set", id |-> x,
                    session |-> [sessions[x] EXCEPT !.status = "VERIFIED_AND_LOGGED"]]]
            /\ UNCHANGED <<governance, sessions, agent, creating, logReq, log,
                           receipts, renewed, server>>

\* await redisClient.set(session:<id>, session, EX 3600); res.status(200)
WebhookSet(h) ==
    /\ HookInFlight(h)
    /\ sessions' = Put(sessions, hook[h].id, hook[h].session)
    /\ renewed' = renewed \cup {hook[h].id}        \* EX 3600 counts from now
    /\ hook' = [hook EXCEPT ![h] = HookIdle]
    /\ UNCHANGED <<governance, agent, creating, appends, logReq, log, receipts,
                   issued, delivered, server>>

\* handleSuccessfulVerification: axios.post throws (the log service is not
\* reached, or answers an error); the catch logs it and nothing else is done
AppendFail(x) ==
    /\ appends[x] > 0
    /\ appends' = [appends EXCEPT ![x] = @ - 1]
    /\ UNCHANGED <<governance, sessions, agent, creating, hook, logReq, log,
                   receipts, issued, delivered, renewed, server>>

\* POST /api/v1/log/entries, to the await of rPush: the payload has a spec,
\* the entry gets a fresh uuid and the time of its receipt (requests are
\* numbered in the order the service receives them)
LogReceive(x) ==
    /\ appends[x] > 0
    /\ appends' = [appends EXCEPT ![x] = @ - 1]
    /\ LET k == Len(log) + Cardinality(logReq) + 1 IN
       logReq' = logReq \cup {[uuid |-> k, timestamp |-> k, body |-> AuditBody(x)]}
    /\ UNCHANGED <<governance, sessions, agent, creating, hook, log, receipts,
                   issued, delivered, renewed, server>>

\* rPush and the 201 answer {uuid, logIndex: listLength}
LogPush(uuid) ==
    \E logEntry \in logReq :
        /\ logEntry.uuid = uuid
        /\ log' = RPush(log, logEntry)
        /\ receipts' = receipts \cup {[uuid |-> logEntry.uuid,
                                       logIndex |-> ListLength(log')]}
        /\ logReq' = logReq \ {logEntry}
        /\ UNCHANGED <<governance, sessions, agent, creating, hook, appends,
                       issued, delivered, renewed, server>>

\* SIGTERM: server.close(callback), the server takes no new request
Sigterm ==
    /\ server = "listening"
    /\ server' = "closing"
    /\ UNCHANGED <<governance, sessions, agent, creating, hook, appends, logReq,
                   log, receipts, issued, delivered, renewed>>

\* The callback of server.close runs when the requests being handled have
\* been answered: redisClient.quit(), then process.exit(0). The appends that
\* handleSuccessfulVerification has on their way are not waited for.
Exit ==
    /\ server = "closing"
    /\ creating = {}
    /\ \A h \in Handlers : ~HookInFlight(h)
    /\ server' = "exited"
    /\ UNCHANGED <<governance, sessions, agent, creating, hook, appends, logReq,
                   log, receipts, issued, delivered, renewed>>

GatewayNext ==
    \/ \E role \in VerifyRoles, ok \in BOOLEAN : VerifyCreate(role, ok)
    \/ \E x \in ExchangeIds : VerifySet(x)
    \/ \E x \in ExchangeIds : SessionExpire(x)
    \/ \E h \in Handlers, authorized \in BOOLEAN, event \in Events :
          WebhookGet(h, authorized, event)
    \/ \E h \in Handlers : WebhookSet(h)
    \/ \E x \in ExchangeIds : AppendFail(x)
    \/ \E x \in ExchangeIds : LogReceive(x)
    \/ \E uuid \in 1..MaxDeliveries : LogPush(uuid)
    \/ Sigterm
    \/ Exit

GatewaySpec == Init /\ [][GatewayNext]_vars

\* ------------------------------------------------------------------ claims
Range(seq) == {seq[i] : i \in 1..Len(seq)}
Answered(id) == {i \in 1..Len(executorCalls[id]) : executorCalls[id][i].ok}
Handling(id) == \E h \in Handlers : InFlight(h) /\ req[h].id = id
\* every vote on the proposal, written or being handled, came with a
\* validatorId that is a string
PlainVotes(id) ==
    /\ \A v \in succeeded[id] : ~v.wrapped
    /\ \A h \in Handlers : InFlight(h) /\ req[h].id = id => ~req[h].validatorId.wrapped

\* C1: whatever the interleaving of the reads, executor calls and writes of
\* concurrent votes, also with more than THRESHOLD validators voting (each
\* under its own name), the executor is called once for a proposal: no
\* proposal has two executor calls that the issuer answered.
C1_ExecutedOnce ==
    \A id \in ProposalIds :
        PlainVotes(id) /\ Cardinality(accepted[id]) > THRESHOLD
        => Cardinality(Answered(id)) <= 1

\* C2: no vote is lost: every validator that voted under its own name and
\* was answered with success is in the stored approvals of the proposal.
C2_NoLostVote ==
    \A id \in DOMAIN store :
        PlainVotes(id) => \A v \in succeeded[id] : v \in Range(store[id].approvals)

\* C3: the executor is called for a proposal only after THRESHOLD different
\* validators of VALIDATORS had a signature accepted for it, whatever the
\* validatorId of the requests was.
C3_QuorumOfDistinctValidators ==
    \A id \in ProposalIds :
        executorCalls[id] # <<>> => Cardinality(accepted[id]) >= THRESHOLD

\* C4: votes handled one after another, by validatorIds that are strings and
\* with an issuer that answers: with two validators accepted the proposal is
\* PENDING with 2 approvals; with the third it is EXECUTED and the executor was
\* called exactly once, with the payload given at creation.
C4_SequentialScenario ==
    \A id \in DOMAIN store :
        (/\ id \notin overlapped
         /\ ~Handling(id)
         /\ \A v \in Range(store[id].approvals) : ~v.wrapped
         /\ \A i \in 1..Len(executorCalls[id]) : executorCalls[id][i].ok)
        => /\ Cardinality(accepted[id]) = THRESHOLD - 1
              => /\ store[id].status = "PENDING"
                 /\ Len(store[id].approvals) = THRESHOLD - 1
           /\ Cardinality(accepted[id]) >= THRESHOLD
              => /\ store[id].status = "EXECUTED"
                 /\ Len(executorCalls[id]) = 1
                 /\ executorCalls[id][1].body.payload = created[id].payload

\* C5: a vote by a validator who is already in the approvals of a PENDING
\* proposal is answered Voted (the rejected request changes nothing).
C5_DuplicateVoteRejected ==
    \A id \in DOMAIN store, validatorId \in ValidatorIdInputs,
       signature \in Signatures :
        (/\ store[id].status = "PENDING"
         /\ \E a \in Range(store[id].approvals) :
               PropertyKey(a) = PropertyKey(validatorId))
        => VoteOutcome(store, id, validatorId, signature) = "Voted"

\* C6: once the stored status of a proposal (here one that revokes, voted on
\* by validators under their own names) is EXECUTED, no step, the write of a
\* vote that read the proposal earlier included, changes its stored status or
\* its stored approvals.
C6_FinalIsFinal ==
    [][\A id \in DOMAIN store :
          /\ PlainVotes(id)
          /\ store[id].action = "REVOKE_CREDENTIAL"
          /\ store[id].status = "EXECUTED"
          => /\ id \in DOMAIN store'
             /\ store'[id].status = "EXECUTED"
             /\ store'[id].approvals = store[id].approvals]_vars

\* C7: after the EXECUTED record of a proposal (here one that revokes, voted
\* on by validators under their own names) has been written, every vote on
\* it, whatever its validator and signature, is answered Finalized.
C7_VoteAfterFinalRejected ==
    \A id \in finalized, validatorId \in ValidatorIdInputs,
       signature \in Signatures :
        PlainVotes(id) /\ created[id].action = "REVOKE_CREDENTIAL" =>
        VoteOutcome(store, id, validatorId, signature) = "Finalized"

\* C8: in every reachable state, a stored proposal whose status is PENDING
\* has fewer than THRESHOLD approvals.
C8_PendingBelowThreshold ==
    \A id \in DOMAIN store :
        store[id].status = "PENDING" => Len(store[id].approvals) < THRESHOLD

\* C8 witness: votes handled at the same time have left a PENDING proposal
\* one approval short of the threshold.
C8_Witness ==
    \E id \in DOMAIN store :
        /\ id \in overlapped
        /\ store[id].status = "PENDING"
        /\ Len(store[id].approvals) = THRESHOLD - 1

\* C9: in every reachable state, the stored approvals of a proposal hold no
\* validator id twice.
C9_ApprovalsAreASet ==
    \A id \in DOMAIN store :
        \A i, j \in 1..Len(store[id].approvals) :
            i # j => store[id].approvals[i] # store[id].approvals[j]

\* C10: for every action kind, a stored status of EXECUTED means the
\* executor has been called for the proposal.
C10_ExecutedMeansCalled ==
    \A id \in DOMAIN store :
        store[id].status = "EXECUTED" => executorCalls[id] # <<>>

\* C11: a vote is accepted for a proposal only with a signature that the
\* named validator made over that proposal's own id, action and payload: the
\* signature of every vote that passed the checks was made by the validator
\* of the request, and was made for no other id, no other action and no other
\* payload than those of the proposal it is cast on.
C11_SignatureBoundToProposal ==
    \A h \in Handlers :
        InFlight(h) =>
        /\ req[h].signature \in Signatures
        /\ req[h].proposal.action = created[req[h].id].action
        /\ req[h].proposal.payload = created[req[h].id].payload
        /\ \A s \in Signed :
              req[h].signature = s.signature
              => /\ s.by = PropertyKey(req[h].validatorId)
                 /\ s.for.id = req[h].id
                 /\ s.for.action = req[h].proposal.action
                 /\ s.for.payload = req[h].proposal.payload

\* C11 witness: a vote with validator_1's signature for the proposal is
\* being handled, and validator_2, who has not voted, submits the signature
\* it made for another proposal with the same action and payload: it is
\* answered BadSig, while its signature for this proposal would be accepted.
C11_Witness ==
    \E h \in Handlers, id \in DOMAIN store, i \in SignedIds \ DOMAIN store :
        /\ InFlight(h) /\ req[h].id = id
        /\ req[h].signature =
              Sign("validator_1", id, store[id].action, store[id].payload)
        /\ store[id].status = "PENDING"
        /\ VoteOutcome(store, id, Str("validator_2"),
              Sign("validator_2", i, store[id].action, store[id].payload)) = "BadSig"
        /\ VoteOutcome(store, id, Str("validator_2"),
              Sign("validator_2", id, store[id].action, store[id].payload)) = "Accepted"

\* entries of the audit log made for the exchange x
EntriesFor(x) == {i \in 1..Len(log) : log[i].body.exchangeId = x}

\* C12: with appends handled at the same time, the log indices of the
\* receipts are pairwise different and have no gap: the receipts given so far
\* carry exactly the indices 1, 2, ... up to their number, each one more than
\* the one given before it.
C12_IndicesUniqueAndGapFree ==
    /\ \A r1, r2 \in receipts : r1.logIndex = r2.logIndex => r1 = r2
    /\ {r.logIndex : r \in receipts} = 1..Cardinality(receipts)
    /\ Cardinality(receipts) = Len(log)

\* C12 witness: two appends were in the log service at the same time and
\* their pushes were done in the other order than they were received; both
\* have their receipt.
C12_Witness ==
    /\ Len(log) >= 2
    /\ log[1].uuid > log[2].uuid
    /\ Cardinality(receipts) >= 2

\* C13: the audit log is append-only: no step removes, changes or moves an
\* entry of the log, and every receipt given names the index at which its
\* entry (same uuid) is found in the log ever after.
C13_AppendOnly ==
    /\ [][/\ Len(log') >= Len(log)
          /\ \A i \in 1..Len(log) : log'[i] = log[i]]_vars
    /\ [](\A r \in receipts :
             r.logIndex \in 1..Len(log) /\ log[r.logIndex].uuid = r.uuid)

\* C13 witness: three entries have been appended, and the sessions they were
\* made for are gone from the store.
C13_Witness ==
    /\ Len(log) = 3
    /\ sessions = <<>>
    /\ \A i \in 1..Len(log) : log[i].uuid \in {r.uuid : r \in receipts}

\* C14: however often the success event of an exchange is delivered while
\* its session exists, the audit log holds at most one entry for the exchange.
C14_OneEntryPerExchange ==
    \A x \in ExchangeIds : Cardinality(EntriesFor(x)) <= 1

\* C15: once the stored status of a session is VERIFIED_AND_LOGGED, no
\* further delivery of its success event triggers an audit append.
C15_SecondDeliveryIsNoOp ==
    [][\A x \in DOMAIN sessions :
          sessions[x].status = "VERIFIED_AND_LOGGED" => issued'[x] = issued[x]]_vars

\* C16: the handling of a "verified" event whose exchange has no session in
\* the store, or that does not assert success, creates or changes no session
\* and triggers no audit append.
C16_EventDropped ==
    [][\A h \in Handlers, event \in Events :
          (/\ event.state = "verified"
           /\ \/ event.presentation_exchange_id \notin DOMAIN sessions
              \/ event.verified = "string:false"
           /\ WebhookGet(h, TRUE, event))
          => UNCHANGED <<sessions, hook, appends, issued, logReq, log>>]_vars

\* C16 witness: the session of an exchange the gateway created has expired
\* after its verification was logged, and a success event for it would find
\* no session, while the session of another exchange is there and an event for
\* it that does not assert success would be dropped as not verified.
C16_Witness ==
    \E x, y \in agent :
        /\ x \notin DOMAIN sessions /\ x \notin creating /\ issued[x] > 0
        /\ y \in DOMAIN sessions
        /\ WebhookOutcome(sessions, TRUE,
              [state |-> "verified", presentation_exchange_id |-> x,
               verified |-> "boolean:true"]) = "NoSession"
        /\ WebhookOutcome(sessions, TRUE,
              [state |-> "verified", presentation_exchange_id |-> y,
               verified |-> "string:false"]) = "NotVerified"

\* C17: vote requests answered not-found, finalized, voted or bad-signature
\* change nothing: what the store holds and what the executor was asked comes
\* from the accepted votes alone. A proposal in the store was created by POST
\* /proposals, it has at most one approval per accepted vote, each approval
\* is a validator whose signature was verified, and the executor was called
\* at most once per accepted vote; with no vote accepted the proposal is as
\* it was created.
C17_RejectedVoteChangesNothing ==
    \A id \in DOMAIN store :
        /\ id \in DOMAIN created
        /\ store[id].action = created[id].action
        /\ store[id].payload = created[id].payload
        /\ Len(store[id].approvals) <= votes
        /\ \A a \in Range(store[id].approvals) : PropertyKey(a) \in accepted[id]
        /\ Len(executorCalls[id]) <= votes
        /\ votes = 0 => store[id].status = "PENDING"

\* C17 witness: one vote has been accepted and written; of the requests that
\* may come now one is answered Voted and one BadSig, and the proposal has
\* its one approval.
C17_Witness ==
    \E id \in DOMAIN store :
        /\ votes = 1
        /\ succeeded[id] = {Str("validator_1")}
        /\ store[id].approvals = <<Str("validator_1")>>
        /\ VoteOutcome(store, id, Str("validator_1"),
              Sign("validator_1", id, store[id].action, store[id].payload)) = "Voted"
        /\ VoteOutcome(store, id, Str("validator_2"),
              Sign("validator_1", id, store[id].action, store[id].payload)) = "BadSig"

\* C18: a vote on a PENDING proposal by a validatorId that is not in
\* VALIDATORS gets an outcome of its own, which is neither the one of an
\* invalid signature nor the generic internal error.
C18_UnknownValidatorOutcome ==
    \A id \in DOMAIN store, validatorId \in ValidatorIdInputs,
       signature \in Signatures :
        (store[id].status = "PENDING" /\ PropertyKey(validatorId) \notin VALIDATORS)
        => VoteOutcome(store, id, validatorId, signature)
              \notin {"BadSig", "InternalError"}

\* C19: the executor is called for a proposal only when the store already
\* holds the proposal with status EXECUTED.
C19_CommitBeforeExecutorCall ==
    [][\A id \in ProposalIds :
          executorCalls'[id] # executorCalls[id]
          => id \in DOMAIN store /\ store[id].status = "EXECUTED"]_vars

\* C20: once an executor call for a proposal has failed (the votes handled
\* one after another, three validators accepted), the proposal is EXECUTED in
\* the store.
C20_ExecutedDespiteFailure ==
    \A id \in DOMAIN store :
        (/\ id \notin overlapped
         /\ Cardinality(accepted[id]) >= THRESHOLD
         /\ \E i \in 1..Len(executorCalls[id]) : ~executorCalls[id][i].ok)
        => store[id].status = "EXECUTED"

\* C21: an audit append for an exchange is triggered only when the store
\* already holds the session of the exchange as VERIFIED_AND_LOGGED.
C21_CommitBeforeAppend ==
    [][\A x \in ExchangeIds :
          issued'[x] > issued[x]
          => x \in DOMAIN sessions /\ sessions[x].status = "VERIFIED_AND_LOGGED"]_vars

\* C22: a session that is stored as VERIFIED_AND_LOGGED, with no webhook
\* request being handled and no append for its exchange on its way to the
\* log or in the log service, has an entry in the audit log.
C22_VerifiedIsLogged ==
    \A x \in DOMAIN sessions :
        (/\ sessions[x].status = "VERIFIED_AND_LOGGED"
         /\ \A h \in Handlers : ~HookInFlight(h)
         /\ appends[x] = 0
         /\ \A e \in logReq : e.body.exchangeId # x)
        => EntriesFor(x) # {}

\* C24: a proposal in the store carries the TTL it was given at its
\* creation, so that it is gone when that TTL has run out, whatever votes
\* were cast on it.
C24_ProposalKeepsItsTTL ==
    \A id \in DOMAIN store : id \in expiring

\* C26: while POST /verify has the agent's answer for an exchange but has not
\* yet written its session, a success event for that exchange is not dropped
\* for want of a session.
C26_SessionBeforeEvent ==
    \A x \in creating :
        WebhookOutcome(sessions, TRUE,
            [state |-> "verified", presentation_exchange_id |-> x,
             verified |-> "boolean:true"]) # "NoSession"

\* C23: the gateway process has exited only with no audit append still on
\* its way: every append triggered by a handled event was completed first.
C23_AppendsDrainedBeforeExit ==
    server = "exited" => \A x \in ExchangeIds : appends[x] = 0

\* C25: a session in the store has the TTL that was started at its
\* creation: no delivery of an event has started its TTL anew, so it is gone
\* 3600 s after it was created.
C25_SessionTTLFromCreation ==
    \A x \in DOMAIN sessions : x \notin renewed

====
